---- MODULE Spec2Model ----
(***************************************************************************)
(* A model of scripts/generate_ast_dependencies.py: the DependencyGraph    *)
(* class, the per-language extraction strategies, the build loop and the   *)
(* summary pass.                                                           *)
(*                                                                         *)
(* Python strings are sequences of one-character strings, so that          *)
(* comparison, sorting, suffix detection and quote stripping are computed  *)
(* and not assumed.  A Python set is a bag whose copies are counted: the   *)
(* membership test of set.add is what keeps every count at 1.  A Python    *)
(* dict is a sequence of keys (insertion order) with a function on them.   *)
(***************************************************************************)
EXTENDS Integers, Sequences, FiniteSets, Bags, TLC

VARIABLES
    edges,            \* Spec: the edges mapping of one DependencyGraph
    last,             \* Spec: the last call on that graph, its arguments and result
    tree,             \* RunSpec: the files under the scan root
    remaining,        \* RunSpec: the files rglob has not yielded yet
    visited,          \* RunSpec: the files yielded so far, in order
    graphs,           \* RunSpec: language -> DependencyGraph
    language_counts,  \* RunSpec: the Counter of files per language
    pc,               \* RunSpec: where main() is
    last_visit,       \* RunSpec: the file of the last loop iteration and how it ended
    output_doc,       \* RunSpec: the text written to --output
    summary_doc       \* RunSpec: the text written to --summary

apiVars == <<edges, last>>
runVars == <<tree, remaining, visited, graphs, language_counts, pc, last_visit,
             output_doc, summary_doc>>
vars == <<edges, last, tree, remaining, visited, graphs, language_counts, pc,
          last_visit, output_doc, summary_doc>>

(***************************************************************************)
(* Bounds of the model.                                                    *)
(***************************************************************************)
\* Longest targets list handed to one add call.
MaxTargets == 2
\* Most files in a scanned tree.
MaxFiles == 2

(***************************************************************************)
(* Strings.                                                                *)
(***************************************************************************)
Range(s) == {s[i] : i \in 1..Len(s)}

\* The characters the model uses, in code point order.
Alphabet == <<"\"", "'", ".", "/", "<", ">", "C", "P", "S", "Y", "_",
              "a", "b", "c", "d", "h", "i", "l", "n", "o", "p", "s", "t", "u", "x", "y">>

Ord(ch) == CHOOSE i \in 1..Len(Alphabet) : Alphabet[i] = ch

\* Python's str.__lt__: lexicographic by code point.
RECURSIVE StrLess(_, _)
StrLess(a, b) ==
    IF a = <<>> THEN b # <<>>
    ELSE IF b = <<>> THEN FALSE
    ELSE IF Head(a) = Head(b) THEN StrLess(Tail(a), Tail(b))
    ELSE Ord(Head(a)) < Ord(Head(b))

\* The least string of a non-empty finite set.
MinStr(S) == CHOOSE m \in S : \A x \in S : x = m \/ StrLess(m, x)

\* sorted(values) on a set of strings held as a bag: every stored copy is
\* emitted, in ascending order.
RECURSIVE Copies(_, _)
Copies(x, n) == IF n = 0 THEN <<>> ELSE <<x>> \o Copies(x, n - 1)

\* The values in descending order.
RECURSIVE sorted_reverse(_)
sorted_reverse(values) ==
    IF BagToSet(values) = {} THEN <<>>
    ELSE LET m == MinStr(BagToSet(values))
             rest == [x \in BagToSet(values) \ {m} |-> values[x]]
         IN sorted_reverse(rest) \o Copies(m, values[m])

RECURSIVE sorted(_)
sorted(values) ==
    IF BagToSet(values) = {} THEN <<>>
    ELSE LET m == MinStr(BagToSet(values))
             rest == [x \in BagToSet(values) \ {m} |-> values[x]]
         IN Copies(m, values[m]) \o sorted(rest)

(***************************************************************************)
(* DependencyGraph.                                                        *)
(***************************************************************************)
\* field(default_factory=lambda: defaultdict(set))
EmptyEdges == [keys |-> <<>>, refs |-> <<>>]

HasKey(d, k) == k \in Range(d.keys)

\* self.edges[source] = set(): the bucket of a known source is emptied.
edges_getitem_reset(e, source) ==
    IF HasKey(e, source) THEN [e EXCEPT !.refs[source] = EmptyBag]
    ELSE [keys |-> Append(e.keys, source), refs |-> e.refs @@ (source :> EmptyBag)]

\* defaultdict.__getitem__: a missing key is inserted, last in order, with set().
edges_getitem(e, source) ==
    IF HasKey(e, source) THEN e
    ELSE [keys |-> Append(e.keys, source), refs |-> e.refs @@ (source :> EmptyBag)]

\* A list in place of the set: every add stores one more copy.
set_add_dup(s, target) == s (+) SetToBag({target})

\* set.add: stores target unless it is already a member.
set_add(s, target) == IF BagIn(target, s) THEN s ELSE s (+) SetToBag({target})

\* self.edges[source].add(target)
edges_add(e, source, target) ==
    LET e1 == edges_getitem(e, source)
    IN [e1 EXCEPT !.refs[source] = set_add(@, target)]

\* The loop without the truthiness test of target.
RECURSIVE add_loop_nofilter(_, _, _)
add_loop_nofilter(e, source, targets) ==
    IF targets = <<>> THEN e
    ELSE add_loop_nofilter(edges_add(e, source, Head(targets)), source, Tail(targets))

\* for target in targets: if target: self.edges[source].add(target)
RECURSIVE add_loop(_, _, _)
add_loop(e, source, targets) ==
    IF targets = <<>> THEN e
    ELSE LET target == Head(targets)
             e1 == IF target # <<>> THEN edges_add(e, source, target) ELSE e
         IN add_loop(e1, source, Tail(targets))

\* add with the bucket fetched before the emptiness test.
add_touch(e, source, targets) == add_loop(edges_getitem(e, source), source, targets)

\* DependencyGraph.add
add(e, source, targets) ==
    IF targets = <<>> THEN e
    ELSE add_loop(e, source, targets)

\* DependencyGraph.to_serializable: {key: sorted(values)}; the key order is
\* that of e.keys.
to_serializable(e) == [key \in Range(e.keys) |-> sorted(e.refs[key])]

RECURSIVE SumOver(_, _)
SumOver(f, S) ==
    IF S = {} THEN 0
    ELSE LET x == CHOOSE y \in S : TRUE IN f[x] + SumOver(f, S \ {x})

\* The number of sources in place of the number of edges.
edge_count_keys(e) == Len(e.keys)

\* DependencyGraph.edge_count: sum(len(targets) for targets in self.edges.values())
edge_count(e) ==
    SumOver([key \in Range(e.keys) |-> BagCardinality(e.refs[key])], Range(e.keys))

\* The reference set of a source; a source with no key has none.
RefSet(e, source) == IF HasKey(e, source) THEN BagToSet(e.refs[source]) ELSE {}

(***************************************************************************)
(* Spec: one DependencyGraph driven by arbitrary calls of its methods.     *)
(***************************************************************************)
a_c == <<"a", ".", "c">>
b_c == <<"b", ".", "c">>
x_h == <<"x", ".", "h">>
y_h == <<"y", ".", "h">>
os == <<"o", "s">>
EmptyStr == <<>>

\* The sources and the targets the calls are drawn from.
Sources == {a_c, b_c}
Targets == {EmptyStr, x_h, y_h}

SeqsUpTo(S, n) == UNION {[1..k -> S] : k \in 0..n}
TargetLists == SeqsUpTo(Targets, MaxTargets)

NoCall == [op |-> "new", source |-> EmptyStr, targets |-> <<>>, pre |-> EmptyEdges,
           repeat |-> FALSE, ret |-> 0]

ApiInit == edges = EmptyEdges /\ last = NoCall

RunIdle ==
    /\ tree = {}
    /\ remaining = {}
    /\ visited = <<>>
    /\ graphs = [keys |-> <<>>, map |-> <<>>]
    /\ language_counts = <<>>
    /\ pc = "idle"
    /\ last_visit = <<>>
    /\ output_doc = <<>>
    /\ summary_doc = <<>>

Init == ApiInit /\ RunIdle

\* graph.add(source, targets)
Add(source, targets) ==
    /\ edges' = add(edges, source, targets)
    /\ last' = [op |-> "add", source |-> source, targets |-> targets, pre |-> edges,
                repeat |-> (last.op = "add" /\ last.source = source
                            /\ last.targets = targets),
                ret |-> 0]
    /\ UNCHANGED runVars

\* graph.to_serializable()
ToSerializable ==
    /\ last' = [op |-> "to_serializable", source |-> EmptyStr, targets |-> <<>>,
                pre |-> edges, repeat |-> FALSE, ret |-> to_serializable(edges)]
    /\ UNCHANGED edges
    /\ UNCHANGED runVars

\* graph.edge_count()
EdgeCount ==
    /\ last' = [op |-> "edge_count", source |-> EmptyStr, targets |-> <<>>,
                pre |-> edges, repeat |-> FALSE, ret |-> edge_count(edges)]
    /\ UNCHANGED edges
    /\ UNCHANGED runVars

(***************************************************************************)
(* Properties of DependencyGraph.                                          *)
(***************************************************************************)
SumLens(ser) == SumOver([key \in DOMAIN ser |-> Len(ser[key])], DOMAIN ser)

\* C1: after any sequence of add calls no source holds the same reference
\* twice: every stored reference has exactly one copy, the serialized list of
\* a source is as long as its reference set, and a reference given to the
\* last add (once, repeatedly, or again after an earlier add) is stored once.
C1_NoReferenceStoredTwice ==
    /\ \A s \in Range(edges.keys) :
          /\ \A r \in BagToSet(edges.refs[s]) : CopiesIn(r, edges.refs[s]) = 1
          /\ Len(to_serializable(edges)[s]) = Cardinality(RefSet(edges, s))
    /\ last.op = "add" =>
          \A r \in Range(last.targets) \ {EmptyStr} :
              /\ HasKey(edges, last.source)
              /\ CopiesIn(r, edges.refs[last.source]) = 1

\* The last add repeated a reference inside one call, and the source held that
\* reference already.
C1_Witness ==
    /\ last.op = "add"
    /\ Len(last.targets) >= 2
    /\ last.targets[1] = last.targets[2]
    /\ last.targets[1] # EmptyStr
    /\ last.targets[1] \in RefSet(last.pre, last.source)
    /\ CopiesIn(last.targets[1], edges.refs[last.source]) = 1

\* C7: edge_count() equals the sum of the lengths of the lists that
\* to_serializable() returns.
C7_EdgeCountIsSerializedLength ==
    edge_count(edges) = SumLens(to_serializable(edges))

\* Two sources, one of them with several references.
C7_Witness ==
    /\ Len(edges.keys) = 2
    /\ \E s \in Range(edges.keys) : Cardinality(RefSet(edges, s)) >= 2
    /\ edge_count(edges) >= 3
    /\ last.op = "edge_count"
    /\ last.ret = edge_count(edges)

\* C8, as stated: after add(source, references) with references not empty, the
\* set of source is its previous set united with all the strings in
\* references, and every other source keeps its set.
C8_AddUnitesAllStrings ==
    (last.op = "add" /\ last.targets # <<>>) =>
        /\ RefSet(edges, last.source) =
               RefSet(last.pre, last.source) \cup Range(last.targets)
        /\ \A s \in Sources \ {last.source} : RefSet(edges, s) = RefSet(last.pre, s)

\* C8, amended: the set of source is its previous set united with the
\* non-empty strings in references (source gets a key only if one of them is
\* non-empty), and every other source keeps its key state and its set.
C8_AddUnitesNonEmptyStrings ==
    (last.op = "add" /\ last.targets # <<>>) =>
        /\ RefSet(edges, last.source) =
               RefSet(last.pre, last.source) \cup (Range(last.targets) \ {EmptyStr})
        /\ HasKey(edges, last.source) <=>
               \/ HasKey(last.pre, last.source)
               \/ Range(last.targets) \ {EmptyStr} # {}
        /\ \A s \in Sources \ {last.source} :
              /\ RefSet(edges, s) = RefSet(last.pre, s)
              /\ HasKey(edges, s) <=> HasKey(last.pre, s)

\* The last add mixed an empty string with a new reference, for a source that
\* held another reference, while another source was present.
C8_Witness ==
    /\ last.op = "add"
    /\ EmptyStr \in Range(last.targets)
    /\ \E r \in Range(last.targets) :
          r # EmptyStr /\ r \notin RefSet(last.pre, last.source)
    /\ RefSet(last.pre, last.source) # {}
    /\ \E s \in Sources \ {last.source} : HasKey(edges, s)

\* C9: add is idempotent: from every reachable graph, for every source and
\* references, a second identical add changes nothing (keys, sets, edge
\* count); and when the last two calls were the same add, the graph is as the
\* first of them left it.
C9_AddIdempotent ==
    /\ \A s \in Sources, t \in TargetLists :
          LET once == add(edges, s, t)
              twice == add(once, s, t)
          IN /\ twice = once
             /\ edge_count(twice) = edge_count(once)
    /\ (last.op = "add" /\ last.repeat) => edges = last.pre

\* The same add was called twice in a row, and it had stored something.
C9_Witness ==
    /\ last.op = "add"
    /\ last.repeat
    /\ \E r \in Range(last.targets) : r # EmptyStr
    /\ Cardinality(RefSet(edges, last.source)) >= 2
    /\ edges = last.pre

\* C10: add with an empty references collection changes nothing in the edges
\* mapping, and creates no key for a source that had none.
C10_AddEmptyIsNoOp ==
    /\ \A s \in Sources : add(edges, s, <<>>) = edges
    /\ (last.op = "add" /\ last.targets = <<>>) =>
          /\ edges = last.pre
          /\ HasKey(edges, last.source) <=> HasKey(last.pre, last.source)

\* add was called with no references for a source that is not in a non-empty
\* graph.
C10_Witness ==
    /\ last.op = "add"
    /\ last.targets = <<>>
    /\ ~HasKey(last.pre, last.source)
    /\ ~HasKey(edges, last.source)
    /\ edges.keys # <<>>

(***************************************************************************)
(* Classification and extraction.                                          *)
(***************************************************************************)
\* LANGUAGE_MAP: extension -> Tree-sitter language id.
LANGUAGE_MAP ==
    (<<".", "c">> :> "c") @@ (<<".", "h">> :> "c")
    @@ (<<".", "c", "p", "p">> :> "cpp") @@ (<<".", "h", "p", "p">> :> "cpp")
    @@ (<<".", "c", "p", "p", "m">> :> "cpp")
    @@ (<<".", "S">> :> "c")
    @@ (<<".", "p", "y">> :> "python")
    @@ (<<".", "s", "h">> :> "bash")
    @@ (<<".", "l", "u", "a">> :> "lua")
    @@ (<<".", "p", "l">> :> "perl")

\* DEFAULT_OMIT = {".git", "build", "_build", "third_party"}
DEFAULT_OMIT ==
    { <<".", "g", "i", "t">>,
      <<"b", "u", "i", "l", "d">>,
      <<"_", "b", "u", "i", "l", "d">>,
      <<"t", "h", "i", "r", "d", "_", "p", "a", "r", "t", "y">> }

\* The languages with a grammar-based extractor (the keys of QUERY_DISPATCH).
QUERY_DISPATCH ==
    [l \in {"c", "cpp", "python", "bash", "lua", "perl"} |->
        CASE l = "c" -> "_query_c_includes"
          [] l = "cpp" -> "_query_c_includes"
          [] l = "python" -> "_query_python_imports"
          [] l = "bash" -> "_query_bash_sources"
          [] l = "lua" -> "_query_lua_requires"
          [] l = "perl" -> "_query_perl_uses"]

None == "None"

\* The largest index of ch in name, 0 if there is none (str.rfind, 1-based).
RFind(name, ch) ==
    LET hits == {i \in 1..Len(name) : name[i] = ch}
    IN IF hits = {} THEN 0 ELSE CHOOSE i \in hits : \A j \in hits : j <= i

\* pathlib's PurePath.suffix: the last dot of the final component and what
\* follows it, unless that dot is the first or the last character.
suffix(path) ==
    LET name == path[Len(path)]
        i == RFind(name, ".")
    IN IF 1 < i /\ i < Len(name) THEN SubSeq(name, i, Len(name)) ELSE <<>>

\* str.lower on the letters of the model.
Lower(ch) ==
    CASE ch = "C" -> "c" [] ch = "P" -> "p" [] ch = "S" -> "s" [] ch = "Y" -> "y"
      [] OTHER -> ch

LowerStr(str) == [i \in 1..Len(str) |-> Lower(str[i])]

\* A lookup of path.suffix that disregards case.
detect_language_nocase(path) ==
    LET hits == {k \in DOMAIN LANGUAGE_MAP : LowerStr(k) = LowerStr(suffix(path))}
    IN IF hits = {} THEN None ELSE LANGUAGE_MAP[CHOOSE k \in hits : TRUE]

\* detect_language: LANGUAGE_MAP.get(path.suffix)
detect_language(path) ==
    IF suffix(path) \in DOMAIN LANGUAGE_MAP THEN LANGUAGE_MAP[suffix(path)] ELSE None

\* str(path.relative_to(root)): the components joined by "/".
RECURSIVE rel_path(_)
rel_path(path) ==
    IF Len(path) = 1 THEN path[1]
    ELSE path[1] \o <<"/">> \o rel_path(Tail(path))

\* _strip_quotes
_strip_quotes(raw) ==
    IF /\ Len(raw) >= 2
       /\ raw[1] \in {"\"", "'", "<"}
       /\ raw[Len(raw)] \in {raw[1], ">"}
       /\ \/ (raw[1] = "<" /\ raw[Len(raw)] = ">")
          \/ raw[1] = raw[Len(raw)]
    THEN SubSeq(raw, 2, Len(raw) - 1)
    ELSE raw

(* What Tree-sitter and the re module do with the bytes of a file is outside
   the repository.  A file's content is therefore held as what they answer:
     fail      the stage at which the grammar-based pass raises: "load"
               (get_language, get_parser), "parse" (parser.parse), "query"
               (language.query), or "none";
     captures  the texts of the captured nodes in order, Raise standing for a
               capture whose iteration or decoding raises;
     fb_raises whether the language's regex scan raises;
     matches   what the language's regex scan returns;
     asm       what _regex_asm_includes returns.                            *)
Raise == <<"!raise">>

Returned(value) == [raised |-> FALSE, value |-> value]
Raised == [raised |-> TRUE, value |-> <<>>]

\* _regex_<language>(source_bytes.decode(errors="ignore"))
regex_scan(content) == IF content.fb_raises THEN Raised ELSE Returned(content.matches)

\* The capture loop: texts are appended until one raises.
RECURSIVE capture_loop(_, _, _)
capture_loop(captures, strip, acc) ==
    IF captures = <<>> THEN [raised |-> FALSE, value |-> acc]
    ELSE IF Head(captures) = Raise THEN [raised |-> TRUE, value |-> acc]
    ELSE capture_loop(Tail(captures), strip,
                      Append(acc, IF strip THEN _strip_quotes(Head(captures))
                                  ELSE Head(captures)))

\* An extractor without a second tier: what was collected is all there is.
extend_with_nothing(collected, content) == Returned(collected)

\* list.extend(regex(...)) on what was collected so far.
extend_with_regex(collected, content) ==
    LET scan == regex_scan(content)
    IN IF scan.raised THEN Raised ELSE Returned(collected \o scan.value)

\* A _query_c_includes that runs the regex scan whatever the captures were.
_query_c_includes_always(content) ==
    IF content.fail \in {"load", "parse", "query"} THEN Raised
    ELSE LET loop == capture_loop(content.captures, TRUE, <<>>)
         IN IF loop.raised THEN Raised
            ELSE extend_with_regex(loop.value, content)

\* _query_c_includes: no statement of it is inside a try.
_query_c_includes(content) ==
    IF content.fail \in {"load", "parse", "query"} THEN Raised
    ELSE LET loop == capture_loop(content.captures, TRUE, <<>>)
         IN IF loop.raised THEN Raised
            ELSE IF loop.value = <<>> THEN extend_with_regex(loop.value, content)
            ELSE Returned(loop.value)

\* _query_python_imports, _query_bash_sources, _query_lua_requires and
\* _query_perl_uses: grammar load and parse are outside the try; the query and
\* the capture loop are inside it.  Only the lua extractor strips quotes.
_query_guarded(content, strip) ==
    IF content.fail \in {"load", "parse"} THEN Raised
    ELSE LET loop == IF content.fail = "query"
                     THEN [raised |-> TRUE, value |-> <<>>]
                     ELSE capture_loop(content.captures, strip, <<>>)
             handled == IF loop.raised THEN extend_with_regex(loop.value, content)
                        ELSE Returned(loop.value)
         IN IF handled.raised THEN Raised
            ELSE IF handled.value = <<>> THEN extend_with_regex(handled.value, content)
            ELSE handled

\* QUERY_DISPATCH[language_id](source_bytes, language_id)
dispatch(language_id, content) ==
    CASE QUERY_DISPATCH[language_id] = "_query_c_includes" -> _query_c_includes(content)
      [] QUERY_DISPATCH[language_id] = "_query_lua_requires" -> _query_guarded(content, TRUE)
      [] OTHER -> _query_guarded(content, FALSE)

\* analyze_file: [raised, language_id, dependencies]
analyze_file(entry) ==
    LET language_id == detect_language(entry.path)
    IN IF language_id = None
       THEN [raised |-> FALSE, language_id |-> None, dependencies |-> <<>>]
       ELSE IF ~entry.content.readable
       THEN [raised |-> TRUE, language_id |-> language_id, dependencies |-> <<>>]
       ELSE LET got == IF language_id \in DOMAIN QUERY_DISPATCH
                       THEN dispatch(language_id, entry.content)
                       ELSE IF suffix(entry.path) = <<".", "S">>
                       THEN Returned(entry.content.asm)
                       ELSE Returned(<<>>)
            IN [raised |-> got.raised, language_id |-> language_id,
                dependencies |-> got.value]

(***************************************************************************)
(* The build loop and the summary.                                         *)
(***************************************************************************)
\* defaultdict(DependencyGraph)
EmptyGraphs == [keys |-> <<>>, map |-> <<>>]

\* graphs[language_id] that binds a new DependencyGraph on every access.
graphs_getitem_fresh(g, language_id) ==
    IF HasKey(g, language_id) THEN [g EXCEPT !.map[language_id] = EmptyEdges]
    ELSE [keys |-> Append(g.keys, language_id),
          map |-> g.map @@ (language_id :> EmptyEdges)]

\* graphs[language_id]: a missing language gets an empty DependencyGraph.
graphs_getitem(g, language_id) ==
    IF HasKey(g, language_id) THEN g
    ELSE [keys |-> Append(g.keys, language_id),
          map |-> g.map @@ (language_id :> EmptyEdges)]

\* if dependencies: graphs[language_id].add(...): no graph for a language
\* whose files have no reference.
graphs_add_nonempty(g, language_id, source, dependencies) ==
    IF dependencies = <<>> THEN g
    ELSE LET g1 == graphs_getitem(g, language_id)
         IN [g1 EXCEPT !.map[language_id] = add(@, source, dependencies)]

\* One graph for every language: the add goes to the graph made first.
graphs_add_shared(g, language_id, source, dependencies) ==
    LET g1 == graphs_getitem(g, language_id)
        first == g1.keys[1]
    IN [g1 EXCEPT !.map[first] = add(@, source, dependencies)]

\* graphs[language_id].add(rel_path, dependencies)
graphs_add(g, language_id, source, dependencies) ==
    LET g1 == graphs_getitem(g, language_id)
    IN [g1 EXCEPT !.map[language_id] = add(@, source, dependencies)]

\* language_counts[language_id] += 1 on a Counter
counter_incr(counts, language_id) ==
    IF language_id \in DOMAIN counts THEN [counts EXCEPT ![language_id] = @ + 1]
    ELSE counts @@ (language_id :> 1)

\* counts.get(language, 0)
counter_get(counts, language_id) ==
    IF language_id \in DOMAIN counts THEN counts[language_id] ELSE 0

\* A walker that tests only the first component under the root.
yielded_top_level(entry, omit) ==
    /\ entry.is_file
    /\ entry.path[1] \notin omit

\* A walker that tests the directories of the path but not the file's name.
yielded_dirs_only(entry, omit) ==
    /\ entry.is_file
    /\ ~\E i \in 1..(Len(entry.path) - 1) : entry.path[i] \in omit

\* iter_repository_files: whether the walker yields the entry.
yielded(entry, omit) ==
    /\ entry.is_file
    /\ ~\E i \in 1..Len(entry.path) : entry.path[i] \in omit

\* One turn of the loop of build_dependency_graph over an rglob entry:
\* the outcome, and the graphs and counts after it.
loop_body(g, counts, entry, omit) ==
    IF ~entry.is_file
    THEN [outcome |-> "not_file", graphs |-> g, counts |-> counts,
          language_id |-> None, dependencies |-> <<>>]
    ELSE IF ~yielded(entry, omit)
    THEN [outcome |-> "omitted", graphs |-> g, counts |-> counts,
          language_id |-> None, dependencies |-> <<>>]
    ELSE LET a == analyze_file(entry)
         IN IF a.raised
            THEN [outcome |-> "raised", graphs |-> g, counts |-> counts,
                  language_id |-> a.language_id, dependencies |-> <<>>]
            ELSE IF a.language_id = None
            THEN [outcome |-> "unsupported", graphs |-> g, counts |-> counts,
                  language_id |-> None, dependencies |-> <<>>]
            ELSE [outcome |-> "analysed",
                  graphs |-> graphs_add(g, a.language_id, rel_path(entry.path),
                                        a.dependencies),
                  counts |-> counter_incr(counts, a.language_id),
                  language_id |-> a.language_id, dependencies |-> a.dependencies]

\* The slice [:10] of summarize_graphs.
TOP_N == 10

\* A descending sort that puts an item before the earlier items of its degree.
RECURSIVE insert_before_equal(_, _)
insert_before_equal(done, item) ==
    IF done = <<>> THEN <<item>>
    ELSE IF Head(done)[2] > item[2]
    THEN <<Head(done)>> \o insert_before_equal(Tail(done), item)
    ELSE <<item>> \o done

\* sorted(items, key=lambda item: item[1], reverse=True): stable, so items of
\* equal degree keep their order.
RECURSIVE insert_by_degree(_, _)
insert_by_degree(done, item) ==
    IF done = <<>> THEN <<item>>
    ELSE IF Head(done)[2] >= item[2]
    THEN <<Head(done)>> \o insert_by_degree(Tail(done), item)
    ELSE <<item>> \o done

RECURSIVE sorted_by_degree(_, _)
sorted_by_degree(items, done) ==
    IF items = <<>> THEN done
    ELSE sorted_by_degree(Tail(items), insert_by_degree(done, Head(items)))

\* heavy_hitters of one graph
top_emitters(e) ==
    LET degree_counter == [i \in 1..Len(e.keys) |->
                              <<e.keys[i], BagCardinality(e.refs[e.keys[i]])>>]
        ranked == sorted_by_degree(degree_counter, <<>>)
    IN SubSeq(ranked, 1, IF Len(ranked) < TOP_N THEN Len(ranked) ELSE TOP_N)

\* A summary whose per-language edges are the number of sources.
summarize_graphs_sources(g, counts) ==
    [languages |-> [language \in Range(g.keys) |->
                       [files |-> counter_get(counts, language),
                        edges |-> Len(g.map[language].keys),
                        top_emitters |-> top_emitters(g.map[language])]],
     totals |-> [languages |-> Len(g.keys),
                 files |-> SumOver(counts, DOMAIN counts),
                 edges |-> SumOver([language \in Range(g.keys) |->
                                       edge_count(g.map[language])], Range(g.keys))]]

\* summarize_graphs
summarize_graphs(g, counts) ==
    [languages |-> [language \in Range(g.keys) |->
                       [files |-> counter_get(counts, language),
                        edges |-> edge_count(g.map[language]),
                        top_emitters |-> top_emitters(g.map[language])]],
     totals |-> [languages |-> Len(g.keys),
                 files |-> SumOver(counts, DOMAIN counts),
                 edges |-> SumOver([language \in Range(g.keys) |->
                                       edge_count(g.map[language])], Range(g.keys))]]

\* The language ids in the order of str comparison.
LanguageOrder == <<"bash", "c", "cpp", "lua", "perl", "python">>

sorted_languages(S) == SelectSeq(LanguageOrder, LAMBDA l : l \in S)

RECURSIVE sorted_strings(_)
sorted_strings(S) ==
    IF S = {} THEN <<>>
    ELSE LET m == MinStr(S) IN <<m>> \o sorted_strings(S \ {m})

\* json.dumps(output_payload, indent=2, sort_keys=True): the text, as the
\* sequence of keys and values in the order they are written.
dumps_output(g) ==
    LET languages == sorted_languages(Range(g.keys))
    IN [i \in 1..Len(languages) |->
           LET ser == to_serializable(g.map[languages[i]])
               keys == sorted_strings(DOMAIN ser)
           IN <<languages[i], [k \in 1..Len(keys) |-> <<keys[k], ser[keys[k]]>>]>>]

\* json.dumps(summary_payload, indent=2, sort_keys=True)
dumps_summary(summary) ==
    LET languages == sorted_languages(DOMAIN summary.languages)
    IN <<<<"languages",
           [i \in 1..Len(languages) |->
               <<languages[i],
                 <<"edges", summary.languages[languages[i]].edges>>,
                 <<"files", summary.languages[languages[i]].files>>,
                 <<"top_emitters", summary.languages[languages[i]].top_emitters>>>>]>>,
         <<"totals",
           <<"edges", summary.totals.edges>>,
           <<"files", summary.totals.files>>,
           <<"languages", summary.totals.languages>>>>>>

\* The graph of Spec as the graphs mapping of its language.
AsGraphs(e) == [keys |-> <<"c">>, map |-> ("c" :> e)]

\* The counts summarize_graphs is called with in Spec: none, or a tally.
SummaryCounts == {<<>>, ("c" :> Cardinality(Sources))}

\* summarize_graphs({"c": graph}, counts)
Summarize(counts) ==
    /\ last' = [op |-> "summarize_graphs", source |-> EmptyStr, targets |-> <<>>,
                pre |-> edges, repeat |-> FALSE,
                ret |-> summarize_graphs(AsGraphs(edges), counts)]
    /\ UNCHANGED edges
    /\ UNCHANGED runVars

Next ==
    \/ \E source \in Sources, targets \in TargetLists : Add(source, targets)
    \/ ToSerializable
    \/ EdgeCount
    \/ \E counts \in SummaryCounts : Summarize(counts)

Spec == Init /\ [][Next]_vars

(***************************************************************************)
(* RunSpec: main() over a tree of at most MaxFiles entries.                *)
(***************************************************************************)
Content(readable, fail, captures, fb_raises, matches, asm) ==
    [readable |-> readable, fail |-> fail, captures |-> captures,
     fb_raises |-> fb_raises, matches |-> matches, asm |-> asm]

\* A file nobody reads.
Unread == Content(TRUE, "none", <<>>, FALSE, <<>>, <<>>)

\* A file whose read_bytes() raises, with an include line in it.
Sealed == Content(FALSE, "none", <<x_h>>, FALSE, <<x_h>>, <<>>)

\* The contents of a file of a language whose grammar captures t1 and t2
\* where its regex matches m1 and m2.
Family(t1, t2, m1, m2) ==
    << Content(FALSE, "none", <<t1>>, FALSE, <<m1>>, <<>>),           \* unreadable
       Content(TRUE, "none", <<t1, t2, t1>>, FALSE, <<m1, m2, m1>>, <<>>),
       Content(TRUE, "none", <<>>, FALSE, <<m1>>, <<>>),              \* grammar gap
       Content(TRUE, "none", <<>>, FALSE, <<>>, <<>>),                \* no reference
       Content(TRUE, "load", <<>>, FALSE, <<m1, m2>>, <<>>),
       Content(TRUE, "parse", <<>>, FALSE, <<m1>>, <<>>),
       Content(TRUE, "none", <<t2, Raise>>, FALSE, <<m1, m2>>, <<>>), \* undecodable capture
       Content(TRUE, "query", <<>>, TRUE, <<>>, <<>>),                \* both tiers raise
       Content(TRUE, "none", <<t2, t1>>, TRUE, <<>>, <<>>) >>         \* a scan would raise

io == <<"i", "o">>
lib == <<"l", "i", "b">>
x_inc == <<"x", ".", "i", "n", "c">>
Quoted(open, str, close) == <<open>> \o str \o <<close>>

CFamily == Family(Quoted("\"", x_h, "\""), Quoted("<", y_h, ">"), x_h, y_h)
PlainFamily == Family(os, io, os, io)
LuaFamily == Family(Quoted("'", os, "'"), Quoted("\"", io, "\""), os, io)
\* An assembly file: %include directives only, or one preprocessor include.
AsmFamily ==
    << Content(TRUE, "none", <<>>, FALSE, <<>>, <<x_inc>>),
       Content(TRUE, "none", <<Quoted("\"", x_h, "\"")>>, FALSE, <<x_h>>, <<>>),
       Content(TRUE, "load", <<>>, FALSE, <<>>, <<x_inc>>) >>

Files(path, contents) ==
    [i \in 1..Len(contents) |-> [path |-> path, is_file |-> TRUE, content |-> contents[i]]]

\* The entries rglob may find under the root.
Candidates ==
    Files(<<a_c>>, CFamily)
    \o Files(<<<<"b", ".", "h">>>>, CFamily)
    \o Files(<<<<"c", ".", "c", "p", "p">>>>, CFamily)
    \o Files(<<<<"d", ".", "S">>>>, AsmFamily)
    \o Files(<<<<"p", ".", "p", "y">>>>, PlainFamily)
    \o Files(<<<<"s", ".", "s", "h">>>>, PlainFamily)
    \o Files(<<<<"l", ".", "l", "u", "a">>>>, LuaFamily)
    \o Files(<<<<"u", ".", "p", "l">>>>, PlainFamily)
    \o Files(<<<<"t", ".", "t", "x", "t">>>>, <<Unread>>)
    \o Files(<<<<"b", "u", "i", "l", "d">>, a_c>>, <<Unread>>)
    \o Files(<<lib, <<"b", "u", "i", "l", "d">>, a_c>>, <<Sealed>>)
    \o Files(<<lib, a_c>>, <<CFamily[2]>>)
    \o Files(<<<<"b", "u", "i", "l", "d">>>>, <<Sealed>>)
    \o Files(<<<<"a", ".", "s">>>>, <<Sealed>>)
    \o Files(<<<<"a", ".", "C">>>>, <<Sealed>>)
    \o Files(<<<<"a", ".", "P", "Y">>>>, <<Sealed>>)
    \o Files(<<<<"s", "h">>>>, <<Sealed>>)
    \o <<[path |-> <<lib>>, is_file |-> FALSE, content |-> Unread]>>

\* The sets of k of the first n candidates.
RECURSIVE Choices(_, _)
Choices(n, k) ==
    IF k = 0 THEN {{}}
    ELSE IF n < k THEN {}
    ELSE Choices(n - 1, k) \cup {c \cup {n} : c \in Choices(n - 1, k - 1)}

\* The trees: at most MaxFiles entries, no path twice.
TreeChoices ==
    {c \in UNION {Choices(Len(Candidates), k) : k \in 0..MaxFiles} :
        \A i, j \in c : i # j => Candidates[i].path # Candidates[j].path}

NoDoc == <<"unwritten">>
NoVisit == [outcome |-> "none",
            entry |-> [path |-> <<EmptyStr>>, is_file |-> FALSE, content |-> Unread],
            language_id |-> None, dependencies |-> <<>>]

ApiIdle == edges = EmptyEdges /\ last = NoCall

\* main() up to the call of build_dependency_graph, which starts with empty
\* graphs and counts.
RunInit ==
    /\ ApiIdle
    /\ \E c \in TreeChoices : tree = {Candidates[i] : i \in c}
    /\ remaining = tree
    /\ visited = <<>>
    /\ graphs = EmptyGraphs
    /\ language_counts = <<>>
    /\ pc = "scan"
    /\ last_visit = NoVisit
    /\ output_doc = NoDoc
    /\ summary_doc = NoDoc

\* The next entry of rglob, in whatever order the file system gives, and the
\* loop body on it.  An exception leaves build_dependency_graph and main.
Visit(entry) ==
    /\ pc = "scan"
    /\ entry \in remaining
    /\ LET turn == loop_body(graphs, language_counts, entry, DEFAULT_OMIT)
       IN /\ graphs' = turn.graphs
          /\ language_counts' = turn.counts
          /\ last_visit' = [outcome |-> turn.outcome, entry |-> entry,
                            language_id |-> turn.language_id,
                            dependencies |-> turn.dependencies]
          /\ pc' = IF turn.outcome = "raised" THEN "crashed" ELSE "scan"
    /\ remaining' = remaining \ {entry}
    /\ visited' = Append(visited, entry)
    /\ UNCHANGED <<tree, output_doc, summary_doc>>
    /\ UNCHANGED apiVars

\* return graphs, language_counts
BuildReturn ==
    /\ pc = "scan"
    /\ remaining = {}
    /\ pc' = "built"
    /\ UNCHANGED <<tree, remaining, visited, graphs, language_counts, last_visit,
                   output_doc, summary_doc>>
    /\ UNCHANGED apiVars

\* args.output.write_text(json.dumps(output_payload, indent=2, sort_keys=True))
WriteOutput ==
    /\ pc = "built"
    /\ output_doc' = dumps_output(graphs)
    /\ pc' = "serialized"
    /\ UNCHANGED <<tree, remaining, visited, graphs, language_counts, last_visit,
                   summary_doc>>
    /\ UNCHANGED apiVars

\* A summary that looks every language up with graphs[language].
WriteSummary_getitem ==
    /\ pc = "serialized"
    /\ summary_doc' = dumps_summary(summarize_graphs(graphs, language_counts))
    /\ graphs' = graphs_getitem(graphs_getitem(graphs, "c"), "python")
    /\ pc' = "done"
    /\ UNCHANGED <<tree, remaining, visited, language_counts, last_visit, output_doc>>
    /\ UNCHANGED apiVars

\* args.summary.write_text(json.dumps(summarize_graphs(graphs, counts), ...))
WriteSummary ==
    /\ pc = "serialized"
    /\ summary_doc' = dumps_summary(summarize_graphs(graphs, language_counts))
    /\ pc' = "done"
    /\ UNCHANGED <<tree, remaining, visited, graphs, language_counts, last_visit,
                   output_doc>>
    /\ UNCHANGED apiVars

RunNext ==
    \/ \E entry \in remaining : Visit(entry)
    \/ BuildReturn
    \/ WriteOutput
    \/ WriteSummary

RunSpec == RunInit /\ [][RunNext]_vars

(***************************************************************************)
(* Properties of a run.                                                    *)
(***************************************************************************)
\* The grammar-based pass raises somewhere on this content.
PrimaryRaises(content) ==
    content.fail # "none" \/ Raise \in Range(content.captures)

\* The entries of the tree that are files of the language outside omitted
\* directories.
EligibleOf(entries, language_id) ==
    {e \in entries : yielded(e, DEFAULT_OMIT) /\ detect_language(e.path) = language_id}

\* build_dependency_graph over the entries in a given order.
RECURSIVE build_from(_, _, _)
build_from(g, counts, order) ==
    IF order = <<>> THEN [raised |-> FALSE, graphs |-> g, counts |-> counts]
    ELSE LET turn == loop_body(g, counts, Head(order), DEFAULT_OMIT)
         IN IF turn.outcome = "raised"
            THEN [raised |-> TRUE, graphs |-> turn.graphs, counts |-> turn.counts]
            ELSE build_from(turn.graphs, turn.counts, Tail(order))

build_dependency_graph(order) == build_from(EmptyGraphs, <<>>, order)

\* Every order in which rglob may yield the entries.
Orders(entries) ==
    {f \in [1..Cardinality(entries) -> entries] : Range(f) = entries}

\* The same languages, the same sources and the same reference set for each.
SameReferenceSets(g1, g2) ==
    /\ Range(g1.keys) = Range(g2.keys)
    /\ \A l \in Range(g1.keys) :
          /\ Range(g1.map[l].keys) = Range(g2.map[l].keys)
          /\ \A src \in Range(g1.map[l].keys) :
                RefSet(g1.map[l], src) = RefSet(g2.map[l], src)

\* C2, as stated: when the grammar-based extractor raises on a readable file
\* of a supported language (and the regex scan does not), analyze_file
\* returns the regex scan's references and the file is counted.
C2_PrimaryFailureFallsBack ==
    ( /\ last_visit.outcome \in {"analysed", "raised"}
      /\ last_visit.entry.content.readable
      /\ PrimaryRaises(last_visit.entry.content)
      /\ ~last_visit.entry.content.fb_raises )
    => /\ last_visit.outcome = "analysed"
       /\ last_visit.dependencies = last_visit.entry.content.matches
       /\ counter_get(language_counts, last_visit.language_id) =
              Cardinality(EligibleOf(Range(visited), last_visit.language_id))

\* C3, as stated: a run does not end in an exception, whatever tiers fail on
\* whatever files; when it has ended, both documents are written and every
\* eligible file of a language is counted under it.
C3_RunCompletes ==
    /\ pc # "crashed"
    /\ pc = "done" =>
          /\ output_doc # NoDoc
          /\ summary_doc # NoDoc
          /\ \A l \in DOMAIN QUERY_DISPATCH :
                counter_get(language_counts, l) = Cardinality(EligibleOf(tree, l))

\* C4, as stated: an unreadable file of a supported language is skipped: the
\* scan goes on, no edge is added for it, and the files visited so far keep
\* their edges and counts.
C4_UnreadableFileIsSkipped ==
    ( /\ last_visit.outcome # "none"
      /\ yielded(last_visit.entry, DEFAULT_OMIT)
      /\ detect_language(last_visit.entry.path) # None
      /\ ~last_visit.entry.content.readable )
    => /\ pc # "crashed"
       /\ last_visit.outcome # "raised"

\* C5: the graphs and counts that build_dependency_graph returns are those it
\* returns for every other order of the same entries: the same languages,
\* sources and reference sets, and the same tallies.
C5_BuildIsOrderIndependent ==
    pc = "built" =>
        \A order \in Orders(tree) :
            LET other == build_dependency_graph(order)
            IN /\ ~other.raised
               /\ SameReferenceSets(other.graphs, graphs)
               /\ other.counts = language_counts

\* A build returned after two files of one language, each with references,
\* which another order would have entered in the other order.
C5_Witness ==
    /\ pc = "built"
    /\ \E l \in Range(graphs.keys) :
          /\ Len(graphs.map[l].keys) = 2
          /\ language_counts[l] = 2
    /\ \E order \in Orders(tree) :
          /\ order # visited
          /\ build_dependency_graph(order).graphs # graphs

\* C6, as stated: the two documents a run writes are the documents of a run
\* that gets the same entries in any other order.
C6_DocumentsAreOrderIndependent ==
    pc = "done" =>
        \A order \in Orders(tree) :
            LET other == build_dependency_graph(order)
            IN /\ output_doc = dumps_output(other.graphs)
               /\ summary_doc =
                      dumps_summary(summarize_graphs(other.graphs, other.counts))

(***************************************************************************)
(* Further properties of DependencyGraph.                                  *)
(***************************************************************************)
IsPrefix(s, t) == Len(s) <= Len(t) /\ SubSeq(t, 1, Len(s)) = s

\* C11: a graph only grows: in every step of any sequence of add,
\* to_serializable, edge_count and summarize_graphs calls the keys stay (in
\* their order), every stored reference stays, and edge_count() does not
\* decrease.
C11_GraphsGrowOnly ==
    [][ /\ IsPrefix(edges.keys, edges'.keys)
        /\ \A s \in Range(edges.keys) :
              \A r \in BagToSet(edges.refs[s]) : r \in RefSet(edges', s)
        /\ edge_count(edges') >= edge_count(edges) ]_vars

\* A graph of two sources and three edges, built by adds, that a summary has
\* just read.
C11_Witness ==
    /\ last.op = "summarize_graphs"
    /\ Len(edges.keys) = 2
    /\ edge_count(edges) >= 3
    /\ last.ret.totals.edges = edge_count(edges)

(***************************************************************************)
(* Further properties of a run.                                            *)
(***************************************************************************)
\* C12: the visit of an entry whose suffix is not a key of LANGUAGE_MAP
\* (.s, .C, .PY, no suffix) does not read the file (an unreadable one raises
\* nothing), leaves graphs and counts as they were, and the entry is a
\* source in no graph.
C12_UnregisteredSuffixIsNotAnalysed ==
    [][ ( /\ visited' # visited
          /\ suffix(last_visit'.entry.path) \notin DOMAIN LANGUAGE_MAP )
        => /\ last_visit'.outcome \in {"unsupported", "omitted", "not_file"}
           /\ pc' = "scan"
           /\ graphs' = graphs
           /\ language_counts' = language_counts
           /\ \A l \in Range(graphs'.keys) :
                 ~HasKey(graphs'.map[l], rel_path(last_visit'.entry.path)) ]_vars

\* An unreadable a.PY was passed over after another file was analysed.
C12_Witness ==
    /\ last_visit.outcome = "unsupported"
    /\ suffix(last_visit.entry.path) = <<".", "P", "Y">>
    /\ ~last_visit.entry.content.readable
    /\ graphs.keys # <<>>
    /\ pc = "scan"

\* C13, as stated: every eligible file of a supported language that the scan
\* has been through has added exactly one to its language's tally, whatever
\* was extracted from it: each language's count is the number of such files
\* visited so far, and the number of them in the tree once the scan is over.
C13_EveryEligibleFileIsCounted ==
    /\ \A l \in DOMAIN QUERY_DISPATCH :
          counter_get(language_counts, l) =
              Cardinality(EligibleOf(Range(visited), l))
    /\ remaining = {} =>
          \A l \in DOMAIN QUERY_DISPATCH :
              counter_get(language_counts, l) = Cardinality(EligibleOf(tree, l))

\* C14: when the analysis of a supported file returns and the regex of the
\* file's language matches something in its text, the references returned are
\* not empty; and when the grammar-based pass ends without a reference (and
\* without an exception), what is returned is what the regex matched.
C14_RegexMatchIsNeverLost ==
    last_visit.outcome = "analysed" =>
        /\ last_visit.entry.content.matches # <<>> => last_visit.dependencies # <<>>
        /\ ( /\ last_visit.entry.content.fail = "none"
             /\ last_visit.entry.content.captures = <<>> )
           => last_visit.dependencies = last_visit.entry.content.matches

\* A file in which the grammar captured nothing and the regex found a
\* reference, which was returned.
C14_Witness ==
    /\ last_visit.outcome = "analysed"
    /\ last_visit.entry.content.fail = "none"
    /\ last_visit.entry.content.captures = <<>>
    /\ last_visit.entry.content.matches # <<>>
    /\ last_visit.dependencies = last_visit.entry.content.matches

\* What the capture loop of the language collects from captures that all
\* decode: the texts in order, unquoted for c, cpp and lua.
PrimarySequence(language_id, captures) ==
    [i \in 1..Len(captures) |->
        IF language_id \in {"c", "cpp", "lua"} THEN _strip_quotes(captures[i])
        ELSE captures[i]]

\* The grammar-based pass completes on this content with a reference.
PrimarySucceeds(content) ==
    /\ content.readable
    /\ content.fail = "none"
    /\ content.captures # <<>>
    /\ Raise \notin Range(content.captures)

\* C15: when the grammar-based pass completes with at least one reference
\* the regex scan is not run (a scan that would raise raises nothing) and the
\* references returned are exactly those of the grammar-based pass, in order.
C15_FallbackOnlyWhenPrimaryFoundWanting ==
    ( /\ last_visit.outcome \in {"analysed", "raised"}
      /\ PrimarySucceeds(last_visit.entry.content) )
    => /\ last_visit.outcome = "analysed"
       /\ last_visit.dependencies =
              PrimarySequence(last_visit.language_id,
                              last_visit.entry.content.captures)

\* A file with two captured references whose regex scan would have raised.
C15_Witness ==
    /\ last_visit.outcome = "analysed"
    /\ PrimarySucceeds(last_visit.entry.content)
    /\ last_visit.entry.content.fb_raises
    /\ Len(last_visit.dependencies) = 2

\* C16, as stated: a readable .S file is analysed by _regex_asm_includes
\* alone: no grammar is loaded for it (so no grammar failure can end its
\* analysis) and the references returned are the paths of its %include and
\* .include directives.
C16_AsmFilesUseAsmRegexOnly ==
    ( /\ last_visit.outcome \in {"analysed", "raised"}
      /\ suffix(last_visit.entry.path) = <<".", "S">>
      /\ last_visit.entry.content.readable )
    => /\ last_visit.outcome = "analysed"
       /\ last_visit.dependencies = last_visit.entry.content.asm

(***************************************************************************)
(* TopSpec: one graph of up to TOP_N + 1 sources, the first TopVaried of    *)
(* them first seen with 1, 3 or 5 references and the later ones with 1 or  *)
(* 5, and summaries of it.                                                 *)
(***************************************************************************)
\* The sources in the order they are first seen (not the order of str).
TopSources ==
    << <<"t">>, <<"a">>, <<"s">>, <<"b">>, <<"p">>, <<"c">>,
       <<"o">>, <<"d">>, <<"l">>, <<"h">>, <<"i">> >>

TopTargets == <<x_h, y_h, os, io, x_inc>>

TopDegrees == {1, 3, 5}

TopVaried == 4

\* The numbers of references the i-th source may be first seen with.
TopDegreesAt(i) == IF i <= TopVaried THEN TopDegrees ELSE {1, 5}

TopInit == ApiInit /\ RunIdle

\* add(source, targets) for the next source not seen yet.
TopAdd(degree) ==
    /\ Len(edges.keys) < Len(TopSources)
    /\ degree \in TopDegreesAt(Len(edges.keys) + 1)
    /\ Add(TopSources[Len(edges.keys) + 1], SubSeq(TopTargets, 1, degree))

\* add(source, targets) again for the source seen first.
TopGrow(degree) ==
    /\ edges.keys # <<>>
    /\ Cardinality(RefSet(edges, edges.keys[1])) < degree
    /\ Add(edges.keys[1], SubSeq(TopTargets, 1, degree))

TopNext ==
    \/ \E degree \in TopDegrees : TopAdd(degree)
    \/ \E degree \in TopDegrees : TopGrow(degree)
    \/ Summarize(<<>>)

TopSpec == TopInit /\ [][TopNext]_vars

\* The position at which a source was first seen.
FirstSeen(e, source) == CHOOSE i \in 1..Len(e.keys) : e.keys[i] = source

\* source ranks before other: more references, or as many and seen earlier.
RanksBefore(e, source, other) ==
    \/ Cardinality(RefSet(e, source)) > Cardinality(RefSet(e, other))
    \/ /\ Cardinality(RefSet(e, source)) = Cardinality(RefSet(e, other))
       /\ FirstSeen(e, source) < FirstSeen(e, other)

\* C17: the top_emitters of a summary are min(10, number of sources) pairs
\* of a source and the size of its reference set, each ranking before the
\* next (more references first, the source seen earlier first among equals),
\* and every source left out ranks after every source listed.
C17_TopEmittersRanking ==
    last.op = "summarize_graphs" =>
        LET top == last.ret.languages["c"].top_emitters
            listed == {top[i][1] : i \in 1..Len(top)}
        IN /\ Len(top) = IF Len(edges.keys) < 10 THEN Len(edges.keys) ELSE 10
           /\ \A i \in 1..Len(top) :
                 /\ top[i][1] \in Range(edges.keys)
                 /\ top[i][2] = Cardinality(RefSet(edges, top[i][1]))
           /\ \A i, j \in 1..Len(top) :
                 i < j => RanksBefore(edges, top[i][1], top[j][1])
           /\ \A source \in Range(edges.keys) \ listed :
                 \A i \in 1..Len(top) : RanksBefore(edges, top[i][1], source)

\* Eleven sources, the first two of one reference and a later one of five:
\* the one left out is the second, and the list starts with a tie.
C17_Witness ==
    /\ last.op = "summarize_graphs"
    /\ Len(edges.keys) = 11
    /\ Len(last.ret.languages["c"].top_emitters) = 10
    /\ Cardinality(RefSet(edges, edges.keys[1])) = 1
    /\ Cardinality(RefSet(edges, edges.keys[2])) = 1
    /\ \A i \in 3..11 : Cardinality(RefSet(edges, edges.keys[i])) > 1
    /\ last.ret.languages["c"].top_emitters[1][2] = 5
    /\ last.ret.languages["c"].top_emitters[2][2] = 5
    /\ last.ret.languages["c"].top_emitters[10][1] = edges.keys[1]

(***************************************************************************)
(* The summary and the serialized graphs.                                  *)
(***************************************************************************)
\* The per-language entries and the totals of the written summary.
SummaryLanguages == summary_doc[1][2]
SummaryTotals == summary_doc[2]

\* C18: in the summary of a run every language with a graph has an entry,
\* whose files is the language's tally and whose edges is its graph's
\* edge_count(); totals.languages is the number of entries, totals.files the
\* sum of their files and totals.edges the sum of their edges.
C18_SummaryFiguresAddUp ==
    pc = "done" =>
        /\ {SummaryLanguages[i][1] : i \in 1..Len(SummaryLanguages)} = Range(graphs.keys)
        /\ Len(SummaryLanguages) = Len(graphs.keys)
        /\ \A i \in 1..Len(SummaryLanguages) :
              /\ SummaryLanguages[i][2] =
                     <<"edges", edge_count(graphs.map[SummaryLanguages[i][1]])>>
              /\ SummaryLanguages[i][3] =
                     <<"files", counter_get(language_counts, SummaryLanguages[i][1])>>
        /\ SummaryTotals[4] = <<"languages", Len(SummaryLanguages)>>
        /\ SummaryTotals[3] =
               <<"files", SumOver([i \in 1..Len(SummaryLanguages) |->
                                      SummaryLanguages[i][3][2]],
                                  1..Len(SummaryLanguages))>>
        /\ SummaryTotals[2] =
               <<"edges", SumOver([i \in 1..Len(SummaryLanguages) |->
                                      SummaryLanguages[i][2][2]],
                                  1..Len(SummaryLanguages))>>

\* The summary of two files of two languages with two references each.
C18_Witness ==
    /\ pc = "done"
    /\ Len(SummaryLanguages) = 2
    /\ SummaryLanguages[1][2] = <<"edges", 2>>
    /\ SummaryLanguages[2][3] = <<"files", 1>>
    /\ SummaryTotals = <<"totals", <<"edges", 4>>, <<"files", 2>>, <<"languages", 2>>>>

\* C19: the steps that serialize the graphs (to_serializable on each) and
\* that summarize them (summarize_graphs) leave the languages of graphs,
\* every graph's keys and reference sets, and the counts exactly as they
\* were; no entry appears for a language or a source that had none.
C19_ReportingIsReadOnly ==
    [][ (pc \in {"built", "serialized"})
        => (graphs' = graphs /\ language_counts' = language_counts) ]_vars

\* Both documents are written for a run that found one language, whose graph
\* has no source (its file had no reference).
C19_Witness ==
    /\ pc = "done"
    /\ output_doc # NoDoc
    /\ summary_doc # NoDoc
    /\ Len(graphs.keys) = 1
    /\ graphs.map[graphs.keys[1]].keys = <<>>
    /\ counter_get(language_counts, graphs.keys[1]) = 1

\* C20: to_serializable returns, for each source of the graph and no other,
\* a list that is strictly ascending in the order of str (so without
\* duplicates) and whose members are exactly the source's reference set.
C20_SerializedListsAreSortedSets ==
    last.op = "to_serializable" =>
        /\ DOMAIN last.ret = Range(edges.keys)
        /\ \A s \in Range(edges.keys) :
              /\ Range(last.ret[s]) = RefSet(edges, s)
              /\ \A i \in 1..(Len(last.ret[s]) - 1) :
                    StrLess(last.ret[s][i], last.ret[s][i + 1])

\* A graph with a source of two references, serialized as x.h then y.h, and
\* a source of one.
C20_Witness ==
    /\ last.op = "to_serializable"
    /\ \E s \in Range(edges.keys) : last.ret[s] = <<x_h, y_h>>
    /\ \E s \in Range(edges.keys) : Len(last.ret[s]) = 1

(***************************************************************************)
(* The walker.                                                             *)
(***************************************************************************)
\* Some directory above the file, at whatever depth, is in the omit set.
UnderOmittedDirectory(entry) ==
    \E i \in 1..(Len(entry.path) - 1) : entry.path[i] \in DEFAULT_OMIT

\* No component of the root-relative path is in the omit set.
NoOmittedComponent(entry) ==
    \A i \in 1..Len(entry.path) : entry.path[i] \notin DEFAULT_OMIT

\* C21: the visit of a regular file that lies under an omitted directory, at
\* whatever depth, yields nothing: the file is not analysed (an unreadable
\* one raises nothing) and graphs and counts stay as they were; a regular
\* file with no omitted component is yielded and handed to analyze_file.
C21_FilesUnderOmittedDirectories ==
    [][ (visited' # visited /\ last_visit'.entry.is_file)
        => /\ UnderOmittedDirectory(last_visit'.entry)
              => /\ last_visit'.outcome = "omitted"
                 /\ pc' = "scan"
                 /\ graphs' = graphs
                 /\ language_counts' = language_counts
           /\ NoOmittedComponent(last_visit'.entry)
              => last_visit'.outcome \in {"analysed", "unsupported", "raised"} ]_vars

\* An unreadable lib/build/a.c was passed over after lib/a.c was analysed.
C21_Witness ==
    /\ last_visit.outcome = "omitted"
    /\ last_visit.entry.path = <<lib, <<"b", "u", "i", "l", "d">>, a_c>>
    /\ ~last_visit.entry.content.readable
    /\ Len(visited) = 2
    /\ visited[1].path = <<lib, a_c>>
    /\ counter_get(language_counts, "c") = 1
    /\ pc = "scan"

LanguagesHolding(path) ==
    {l \in Range(graphs.keys) : HasKey(graphs.map[l], rel_path(path))}

\* C23: once build_dependency_graph has returned, every source key of every
\* graph is the root-relative path of a regular file of the tree outside the
\* omitted directories whose suffix LANGUAGE_MAP maps to that graph's
\* language, and is a key of no other graph; a file is a source in at most
\* one graph, and in none when its suffix is not registered.
C23_OneLanguagePerSource ==
    pc \in {"built", "serialized", "done"} =>
        /\ \A l \in Range(graphs.keys) :
              \A src \in Range(graphs.map[l].keys) :
                  /\ \E e \in tree :
                        /\ e.is_file
                        /\ NoOmittedComponent(e)
                        /\ rel_path(e.path) = src
                        /\ suffix(e.path) \in DOMAIN LANGUAGE_MAP
                        /\ LANGUAGE_MAP[suffix(e.path)] = l
                  /\ \A other \in Range(graphs.keys) \ {l} :
                        ~HasKey(graphs.map[other], src)
        /\ \A e \in tree :
              /\ Cardinality(LanguagesHolding(e.path)) <= 1
              /\ suffix(e.path) \notin DOMAIN LANGUAGE_MAP => LanguagesHolding(e.path) = {}

\* lib/a.c is a source of the c graph under its relative path, and a file of
\* another language is a source of that language's graph.
C23_Witness ==
    /\ pc = "built"
    /\ Len(graphs.keys) = 2
    /\ LanguagesHolding(<<lib, a_c>>) = {"c"}
    /\ \E l \in Range(graphs.keys) \ {"c"} : graphs.map[l].keys # <<>>

(***************************************************************************)
(* ExtractSpec: main() over a tree of one file whose text is given as its  *)
(* statements, so that what the query and the regex of its language find   *)
(* in it is computed.                                                      *)
(***************************************************************************)
MaxStatements == 2

sys == <<"s", "y", "s">>
path_name == <<"p", "a", "t", "h">>

\* #include followed by a path between an opening and a closing delimiter.
IncludeDirectives ==
    [open : {"\"", "<"}, path : {x_h, y_h}, close : {"\"", ">"}]

\* import M, and from M import N.
ImportStatements ==
    [kind : {"import"}, module : {os, sys}, name : {EmptyStr}]
    \cup [kind : {"from"}, module : {os, sys}, name : {path_name}]

configure == <<".", "/", "c", "o", "n", "f", "i", "g", "u", "r", "e">>
resource == <<"r", "e", "s", "o", "u", "r", "c", "e">>
source_word == <<"s", "o", "u", "r", "c", "e">>
dot_word == <<".">>
echo == <<"e", "c", "h", "o">>

\* A command name followed by one word.
Commands ==
    [name : {source_word, dot_word, configure, resource, echo}, args : {<<io>>, <<os>>}]

\* s has sub as a contiguous part (re.search of a literal).
Contains(s, sub) ==
    \E i \in 1..(Len(s) - Len(sub) + 1) : SubSeq(s, i, i + Len(sub) - 1) = sub

\* The concatenation of a sequence of sequences.
RECURSIVE Flatten(_)
Flatten(parts) == IF parts = <<>> THEN <<>> ELSE Head(parts) \o Flatten(Tail(parts))

\* (preproc_include path: [(string_literal) (system_lib_string)] @include):
\* the node text, delimiters included, of "x" and <x>.
c_include_captures(text) ==
    LET one(d) == IF \/ (d.open = "\"" /\ d.close = "\"")
                     \/ (d.open = "<" /\ d.close = ">")
                  THEN <<Quoted(d.open, d.path, d.close)>> ELSE <<>>
    IN Flatten([i \in 1..Len(text) |-> one(text[i])])

\* _regex_c_includes: ^\s*#\s*include\s+[<"]([^>"]+)[>"]
_regex_c_includes(text) ==
    LET one(d) == <<d.path>>
    IN Flatten([i \in 1..Len(text) |-> one(text[i])])

\* (import_statement (dotted_name) @module) and
\* (import_from_statement module_name: (dotted_name) @module)
python_import_captures(text) ==
    LET one(st) == <<st.module>>
    IN Flatten([i \in 1..Len(text) |-> one(text[i])])

\* _regex_python_imports: group 1 (from M import) or group 2 (import M).
_regex_python_imports(text) ==
    LET one(st) == IF st.module # EmptyStr THEN <<st.module>> ELSE <<>>
    IN Flatten([i \in 1..Len(text) |-> one(text[i])])

\* (#match? @cmd "source|\."): a search, satisfied anywhere in the name.
cmd_matches(name) == Contains(name, source_word) \/ Contains(name, dot_word)

\* ((command name: (command_name) @cmd argument: (word) @path) (#match? ...))
bash_source_captures(text) ==
    LET one(cmd) == IF cmd_matches(cmd.name) THEN cmd.args ELSE <<>>
    IN Flatten([i \in 1..Len(text) |-> one(text[i])])

\* _regex_bash_sources: ^\s*(?:source|\.)\s+([^\s]+)
_regex_bash_sources(text) ==
    LET one(cmd) == IF cmd.name \in {source_word, dot_word} /\ cmd.args # <<>>
                    THEN <<Head(cmd.args)>> ELSE <<>>
    IN Flatten([i \in 1..Len(text) |-> one(text[i])])

\* The content of a readable file of the language with the given text, the
\* grammar-based pass failing at stage fail.
TextContent(language_id, text, fail) ==
    [text |-> text]
    @@ Content(TRUE, fail,
               CASE language_id = "c" -> c_include_captures(text)
                 [] language_id = "python" -> python_import_captures(text)
                 [] language_id = "bash" -> bash_source_captures(text),
               FALSE,
               CASE language_id = "c" -> _regex_c_includes(text)
                 [] language_id = "python" -> _regex_python_imports(text)
                 [] language_id = "bash" -> _regex_bash_sources(text),
               <<>>)

GrammarStages == {"none", "load", "query"}

TextFiles(path, language_id, statements) ==
    {[path |-> path, is_file |-> TRUE, content |-> TextContent(language_id, text, fail)] :
        text \in SeqsUpTo(statements, MaxStatements), fail \in GrammarStages}

ExtractCandidates ==
    TextFiles(<<a_c>>, "c", IncludeDirectives)
    \cup TextFiles(<<<<"p", ".", "p", "y">>>>, "python", ImportStatements)
    \cup TextFiles(<<<<"s", ".", "s", "h">>>>, "bash", Commands)

ExtractInit ==
    /\ ApiIdle
    /\ \E entry \in ExtractCandidates : tree = {entry}
    /\ remaining = tree
    /\ visited = <<>>
    /\ graphs = EmptyGraphs
    /\ language_counts = <<>>
    /\ pc = "scan"
    /\ last_visit = NoVisit
    /\ output_doc = NoDoc
    /\ summary_doc = NoDoc

ExtractSpec == ExtractInit /\ [][RunNext]_vars

\* The reference set the graphs hold for the file visited last.
VisitedRefs ==
    LET l == last_visit.language_id
        src == rel_path(last_visit.entry.path)
    IN IF HasKey(graphs, l) /\ HasKey(graphs.map[l], src)
       THEN RefSet(graphs.map[l], src) ELSE {}

\* The path is written as "x" or <x>.
WellFormed(d) ==
    (d.open = "\"" /\ d.close = "\"") \/ (d.open = "<" /\ d.close = ">")

TextOf(visit) == visit.entry.content.text

\* C24, as stated: after the visit of a C file every include directive of it
\* written "x" or <x> has contributed the reference x, and when all its
\* directives are so written the file's reference set is exactly their paths
\* (#include "x.h" and #include <y.h> give {x.h, y.h}).
C24_IncludePathsAreUnquoted ==
    (last_visit.outcome \in {"analysed", "raised"} /\ last_visit.language_id = "c")
    => /\ \A i \in 1..Len(TextOf(last_visit)) :
             WellFormed(TextOf(last_visit)[i])
             => TextOf(last_visit)[i].path \in VisitedRefs
       /\ (\A i \in 1..Len(TextOf(last_visit)) : WellFormed(TextOf(last_visit)[i]))
          => VisitedRefs = {TextOf(last_visit)[i].path : i \in 1..Len(TextOf(last_visit))}

\* Each statement's module: M of import M and of from M import N.
ModulesOf(text) == {text[i].module : i \in 1..Len(text)}

\* C25, as stated: after the visit of a Python file every import M and every
\* from M import N of it has contributed M, and nothing else: the file's
\* reference set is exactly the modules of its statements (import os and
\* from sys import path give {os, sys}).
C25_ImportsContributeTheModule ==
    (last_visit.outcome \in {"analysed", "raised"} /\ last_visit.language_id = "python")
    => VisitedRefs = ModulesOf(TextOf(last_visit))

\* The words that are arguments of the commands named exactly source or `.`.
SourcedWords(text) ==
    LET one(cmd) == IF cmd.name \in {source_word, dot_word} THEN cmd.args ELSE <<>>
    IN Flatten([i \in 1..Len(text) |-> one(text[i])])

\* C26, as stated: when the grammar-based pass over a shell file completes
\* with references, they are the arguments of the commands named exactly
\* source or `.`, in order; no argument of ./configure, resource or any other
\* command is among them.
C26_OnlySourceAndDotCommands ==
    ( /\ last_visit.outcome = "analysed"
      /\ last_visit.language_id = "bash"
      /\ last_visit.entry.content.fail = "none"
      /\ last_visit.entry.content.captures # <<>> )
    => last_visit.dependencies = SourcedWords(TextOf(last_visit))

\* The languages with a positive file count.
CountedLanguages == {l \in DOMAIN language_counts : language_counts[l] > 0}

\* C27: once build_dependency_graph has returned, the languages with a graph
\* are the languages with a positive count, no graph has more source keys
\* than its language has counted files, and the summary's totals.languages
\* is the number of counted languages, those whose files gave no reference
\* included.
C27_GraphsMatchCounts ==
    /\ pc \in {"built", "serialized", "done"} =>
          /\ Range(graphs.keys) = CountedLanguages
          /\ \A l \in Range(graphs.keys) :
                Len(graphs.map[l].keys) <= counter_get(language_counts, l)
    /\ pc = "done" => SummaryTotals[4] = <<"languages", Cardinality(CountedLanguages)>>

\* Two counted files of two languages, one of them without a reference: its
\* language has a graph with no source key and is one of the two languages
\* of the totals.
C27_Witness ==
    /\ pc = "done"
    /\ Cardinality(CountedLanguages) = 2
    /\ \E l \in Range(graphs.keys) :
          graphs.map[l].keys = <<>> /\ counter_get(language_counts, l) = 1
    /\ \E l \in Range(graphs.keys) : Len(graphs.map[l].keys) = 1
    /\ SummaryTotals[4] = <<"languages", 2>>

(***************************************************************************)
(* Empty strings and empty sets.                                           *)
(***************************************************************************)
\* C28: after any sequence of add calls no reference set holds the empty
\* string and no source key has an empty set; an add whose targets are all
\* empty strings leaves the graph as it was (no key for its source); every
\* serialized list and every top_emitters degree is at least 1.
C28_NoEmptyReferenceNoEmptySet ==
    /\ \A s \in Range(edges.keys) :
          /\ EmptyStr \notin RefSet(edges, s)
          /\ RefSet(edges, s) # {}
    /\ (last.op = "add" /\ \A i \in 1..Len(last.targets) : last.targets[i] = EmptyStr)
       => edges = last.pre
    /\ last.op = "to_serializable" =>
          \A s \in DOMAIN last.ret : Len(last.ret[s]) >= 1
    /\ last.op = "summarize_graphs" =>
          \A i \in 1..Len(last.ret.languages["c"].top_emitters) :
              last.ret.languages["c"].top_emitters[i][2] >= 1

\* An add of two empty strings for a source the graph does not know left
\* the source without a key.
C28_Witness ==
    /\ last.op = "add"
    /\ last.targets = <<EmptyStr, EmptyStr>>
    /\ ~HasKey(edges, last.source)
    /\ edges.keys # <<>>

(***************************************************************************)
(* StripSpec: _strip_quotes on every token of up to MaxTokenLen characters *)
(* over the delimiters and a letter.                                       *)
(***************************************************************************)
MaxTokenLen == 3

TokenChars == {"\"", "'", "<", ">", "x"}

Tokens == SeqsUpTo(TokenChars, MaxTokenLen)

\* A token, before _strip_quotes is called on it.
StripInit ==
    /\ edges = EmptyEdges
    /\ \E raw \in Tokens :
          last = [op |-> "token", source |-> raw, targets |-> <<>>,
                  pre |-> EmptyEdges, repeat |-> FALSE, ret |-> raw]
    /\ RunIdle

\* _strip_quotes(raw)
Strip ==
    /\ last.op = "token"
    /\ last' = [last EXCEPT !.op = "_strip_quotes", !.ret = _strip_quotes(last.source)]
    /\ UNCHANGED edges
    /\ UNCHANGED runVars

StripNext == Strip

StripSpec == StripInit /\ [][StripNext]_vars

\* The first and last character are a pair: "...", '...' or <...>.
MatchingPair(raw) ==
    /\ Len(raw) >= 2
    /\ <<raw[1], raw[Len(raw)]>> \in {<<"\"", "\"">>, <<"'", "'">>, <<"<", ">">>}

\* C30, as stated: _strip_quotes returns the token without its first and
\* last character when these are a matching pair, and the token itself
\* otherwise (shorter than two characters, or delimiters that do not
\* correspond, as in <x", "x> and <x<).
C30_StripsMatchingPairsOnly ==
    last.op = "_strip_quotes" =>
        last.ret = IF MatchingPair(last.source)
                   THEN SubSeq(last.source, 2, Len(last.source) - 1)
                   ELSE last.source

====
